---- MODULE Spec2Model ----
(***************************************************************************)
(* Population forecasting backend: the regression model wrapper            *)
(* (app/models/xgboost_model.py), the /train and /predict routers, the     *)
(* scheduler's retrain and the contextual (RAG) adjuster.                  *)
(*                                                                         *)
(* Numbers are fixed point: rates, ages and percentages are held in        *)
(* thousandths (14.8 is 14800), populations and GDP in whole units.  A     *)
(* Python dict is a function whose DOMAIN is the set of keys present.      *)
(* A call's outcome is a record [ok, value, err]: ok = FALSE is a raised   *)
(* exception, and err names it.                                            *)
(***************************************************************************)
EXTENDS Integers, Sequences, FiniteSets, TLC

VARIABLES
    wrappers,      \* heap of PopulationXGBoostModel objects, by object id
    trainRef,      \* app.routers.train._model_instance   (0 is None)
    predRef,       \* app.routers.predict._model_instance (0 is None)
    disk,          \* the file at settings.XGBOOST_MODEL_PATH
    job,           \* the train call in progress: its position and locals
    req,           \* the /predict request in flight, then its response
    runs,          \* how many regressors have been constructed so far
    succeeded,     \* history: the wrappers on which a train call completed or a
                   \* load_model call succeeded
    call,          \* the last direct predict/forecast call on the caller's wrapper
                   \* (`after` is the call made just before it)
    memo,          \* an earlier direct forecast call, remembered for comparison
    store,         \* the rows of the countries table (CountryData)
    tx             \* the save in progress of each ingestion process: its
                   \* position and locals

vars == <<wrappers, trainRef, predRef, disk, job, req, runs, succeeded, call, memo,
          store, tx>>

-----------------------------------------------------------------------------
(* Bounds of the model *)

\* how many regressors are constructed (train line 150) in one behaviour
MaxRuns == 2
\* the largest forecast horizon requested
MaxYears == 3
\* the largest finite float of the model; float64's is about 1.8e308.  A
\* product above it is inf
MaxFinite == 42000
\* the largest number of rows the countries table is let grow to
MaxRecords == 4

-----------------------------------------------------------------------------
(* Python values *)

EmptyDict == [k \in {} |-> 0]

Get(d, k, default) == IF k \in DOMAIN d THEN d[k] ELSE default
Del(d, k) == [x \in DOMAIN d \ {k} |-> d[x]]
Max(a, b) == IF a >= b THEN a ELSE b

Return(v) == [ok |-> TRUE, value |-> v, err |-> "none"]
Raise(e, novalue) == [ok |-> FALSE, value |-> novalue, err |-> e]

INF == MaxFinite + 1
IsInf(x) == x > MaxFinite
\* float multiplication x * (num/den), overflowing to inf
MulFloat(x, num, den) ==
    IF IsInf(x) THEN INF
    ELSE IF (x * num) \div den > MaxFinite THEN INF ELSE (x * num) \div den

RECURSIVE FloorLog2(_)
FloorLog2(n) == IF n <= 1 THEN 0 ELSE 1 + FloorLog2(n \div 2)
\* np.log1p(g) in thousandths, for g >= 0: ln(1+g) = log2(1+g) * 0.693
Log1p(g) == IF IsInf(g) THEN INF ELSE 693 * FloorLog2(1 + g)

-----------------------------------------------------------------------------
(* PopulationXGBoostModel *)

FEATURE_NAMES ==
    <<"birthRate", "deathRate", "naturalIncrease", "birthDeathRatio",
      "gdpLog", "lifeExpectancy", "urbanization">>

\* a regressor: the run that constructed it, whether it was fitted, and the
\* column names of the frame it was fitted on (the library records them)
NoModel == [run |-> 0, fitted |-> FALSE, columns |-> <<>>]
Regressor(r) == [run |-> r, fitted |-> FALSE, columns |-> <<>>]
Fitted(m) == [m EXCEPT !.fitted = TRUE]
\* self.model.fit(X_train, ...): X is df[self.feature_names] (line 114)
FitOn(m, columns) == [Fitted(m) EXCEPT !.columns = columns]

\* __init__
NewWrapper ==
    [model |-> NoModel,
     feature_names |-> FEATURE_NAMES,
     feature_importance |-> EmptyDict,
     training_metrics |-> EmptyDict,
     is_trained |-> FALSE]

Unallocated == [NewWrapper EXCEPT !.feature_names = <<>>]

\* the feature vector predict builds from a raw indicator bundle
FeatureVector(features) ==
    LET birth == Get(features, "birthRate", 15000)
        death == Get(features, "deathRate", 7000)
        gdp == Get(features, "gdpPerCapita", 3000)
        life_exp == Get(features, "lifeExpectancy", 74000) \div 100
    IN  [birthRate |-> birth \div 50,
         deathRate |-> death \div 20,
         naturalIncrease |-> (birth - death) \div 30,
         birthDeathRatio |-> (birth * 1000) \div Max(death, 1000),
         gdpLog |-> IF IsInf(Log1p(gdp)) THEN INF ELSE Log1p(gdp) \div 15,
         lifeExpectancy |-> life_exp,
         urbanization |-> Get(features, "urbanization", 0) \div 100]

\* the columns of the one-row frame predict builds (lines 226-234), in the
\* order of its dict literal
VectorColumns ==
    <<"birthRate", "deathRate", "naturalIncrease", "birthDeathRatio",
      "gdpLog", "lifeExpectancy", "urbanization">>

\* self.model.predict(feature_vector)[0]: the regressor is a library object.
\* What it returns is a fixed function of the fit (the run) and the vector;
\* an unfitted regressor, None, a frame whose columns are not those of the
\* fit, or a non-finite input raise.
ModelPredict(m, fv) ==
    IF m = NoModel THEN Raise("AttributeError", 0)
    ELSE IF ~m.fitted THEN Raise("NotFittedError", 0)
    ELSE IF m.columns # VectorColumns THEN Raise("ValueError", 0)
    ELSE IF IsInf(fv.gdpLog) THEN Raise("XGBoostError", 0)
    ELSE Return(3 * fv.naturalIncrease + 10 * m.run - fv.deathRate \div 100)

\* predict
Predict(self, features) ==
    IF ~self.is_trained THEN Raise("NotTrained", 0)
    ELSE ModelPredict(self.model, FeatureVector(features))

DriftKeys == <<"birthRate", "deathRate", "gdpPerCapita", "medianAge", "lifeExpectancy">>

BASE_YEAR == 2025

\* a drift that ages the two rates only
DriftRatesOnly(current_data) ==
    IF \E i \in 1..Len(DriftKeys) : DriftKeys[i] \notin DOMAIN current_data
    THEN Raise("KeyError", current_data)
    ELSE Return([current_data EXCEPT
                   !["birthRate"] = MulFloat(@, 995, 1000),
                   !["deathRate"] = MulFloat(@, 101, 100)])

\* forecast lines 276-280; the first absent key raises KeyError
Drift(current_data) ==
    IF \E i \in 1..Len(DriftKeys) : DriftKeys[i] \notin DOMAIN current_data
    THEN Raise("KeyError", current_data)
    ELSE Return([current_data EXCEPT
                   !["birthRate"] = MulFloat(@, 995, 1000),
                   !["deathRate"] = MulFloat(@, 101, 100),
                   !["gdpPerCapita"] = MulFloat(@, 103, 100),
                   !["medianAge"] = @ + 500,
                   !["lifeExpectancy"] = @ + 100])

\* forecast lines 257-267
SnapshotFeatures(current_data) ==
    [k \in {"birthRate", "deathRate", "gdpPerCapita", "urbanization",
            "educationIndex", "healthcareSpending", "fertilityRate",
            "medianAge", "lifeExpectancy"} |-> Get(current_data, k, 0)]

\* forecast line 273
NewPop(current_pop, growth_rate) == current_pop + (current_pop * growth_rate) \div 100000

\* a loop that computes every step from the population it started with
NextPopStuck(current_pop, new_pop) == current_pop

\* forecast line 290: `current_pop = new_pop`
NextPop(current_pop, new_pop) == new_pop

\* a loop that counts from 0 instead of 1
PointYearFromZero(year) == BASE_YEAR + year - 1

\* forecast line 283
PointYear(year) == BASE_YEAR + year

\* forecast lines 282-288: the rates are read after the drift of this step
ForecastPoint(year, new_pop, growth_rate, before, after) ==
    [year |-> PointYear(year),
     population |-> new_pop,
     growthRate |-> growth_rate,
     birthRate |-> after["birthRate"],
     deathRate |-> after["deathRate"]]

\* a loop that swallows the exception and returns the points it has
LoopAbortPartial(e, forecast_data) == Return(forecast_data)

\* forecast lines 255-292 have no handler: an exception raised in a step
\* leaves forecast, and the points collected so far are dropped
LoopAbort(e, forecast_data) == Raise(e, <<>>)

\* forecast lines 255-290, from step `year` on
RECURSIVE ForecastLoop(_, _, _, _, _, _)
ForecastLoop(self, current_data, current_pop, forecast_data, year, years) ==
    IF year > years THEN Return(forecast_data)
    ELSE
      LET growth == Predict(self, SnapshotFeatures(current_data))
          drift == Drift(current_data)
      IN  IF ~growth.ok THEN LoopAbort(growth.err, forecast_data)
          ELSE IF ~drift.ok THEN LoopAbort(drift.err, forecast_data)
          ELSE
            LET new_pop == NewPop(current_pop, growth.value)
            IN  ForecastLoop(self, drift.value, NextPop(current_pop, new_pop),
                    Append(forecast_data,
                        ForecastPoint(year, new_pop, growth.value,
                                      current_data, drift.value)),
                    year + 1, years)

\* forecast lines 257-270 and 276-280, from step `year` on: the features
\* handed to predict, step by step
RECURSIVE FedFeatures(_, _, _, _)
FedFeatures(self, current_data, year, years) ==
    IF year > years THEN <<>>
    ELSE
      LET features == SnapshotFeatures(current_data)
          growth == Predict(self, features)
          drift == Drift(current_data)
      IN  IF ~growth.ok \/ ~drift.ok THEN <<features>>
          ELSE <<features>> \o FedFeatures(self, drift.value, year + 1, years)

\* forecast lines 276-280 on a mapping that lacks a key: the assignments
\* before the first absent key have been made when KeyError is raised
DriftedPrefix(current_data) ==
    LET missing == { i \in 1..Len(DriftKeys) : DriftKeys[i] \notin DOMAIN current_data }
        stop == IF missing = {} THEN Len(DriftKeys) + 1
                ELSE CHOOSE i \in missing : \A j \in missing : i <= j
        done == { DriftKeys[i] : i \in 1..(stop - 1) }
    IN  [k \in DOMAIN current_data |->
            IF k \notin done THEN current_data[k]
            ELSE CASE k = "birthRate" -> MulFloat(current_data[k], 995, 1000)
                   [] k = "deathRate" -> MulFloat(current_data[k], 101, 100)
                   [] k = "gdpPerCapita" -> MulFloat(current_data[k], 103, 100)
                   [] k = "medianAge" -> current_data[k] + 500
                   [] OTHER -> current_data[k] + 100]

\* forecast lines 255-290, from step `year` on: the mapping current_data
\* refers to when the loop ends or an exception leaves it
RECURSIVE DataAtExit(_, _, _, _)
DataAtExit(self, current_data, year, years) ==
    IF year > years THEN current_data
    ELSE IF ~Predict(self, SnapshotFeatures(current_data)).ok THEN current_data
    ELSE IF ~Drift(current_data).ok THEN DriftedPrefix(current_data)
    ELSE DataAtExit(self, Drift(current_data).value, year + 1, years)

\* a callee that works on the caller's mapping itself
CallerDataShared(mapping, worked) == worked

\* `current_data = initial_data.copy()` (forecast line 252) and
\* `adjusted_features = request.country_data.copy()` (predict_population
\* line 60): the callee works on a copy, so the caller's mapping holds
\* afterwards what it held before, whatever the copy has become
CallerData(mapping, worked) == mapping

\* a forecast that resumes from the population the previous call ended with
InitialPopCarried(initial_data) ==
    IF call.op = "forecast" /\ call.result.ok /\ call.result.value # <<>>
    THEN call.result.value[Len(call.result.value)].population
    ELSE Get(initial_data, "population", 0)

\* forecast lines 252-253: the loop starts from the caller's population
InitialPop(initial_data) == Get(initial_data, "population", 0)

\* forecast
Forecast(self, initial_data, years) ==
    IF ~self.is_trained THEN Raise("NotTrained", <<>>)
    ELSE ForecastLoop(self, initial_data, InitialPop(initial_data), <<>>, 1, years)

-----------------------------------------------------------------------------
(* Training *)

\* prepare_training_data lines 64-93, one country: the real samples of its
\* consecutive pairs.  Each real sample is followed by 9 noise-perturbed
\* siblings (lines 97-111), which draw from np.random and are not modelled.
RECURSIVE CountrySamples(_, _)
CountrySamples(country, i) ==
    LET historical_data == Get(country, "historicalData", <<>>)
    IN  IF i > Len(historical_data) - 1 THEN Return(<<>>)
        ELSE
          LET current == historical_data[i]
              next_year == historical_data[i + 1]
              rest == CountrySamples(country, i + 1)
          IN  IF current.pop = 0 THEN Raise("ZeroDivisionError", <<>>)
              ELSE IF ~rest.ok THEN rest
              ELSE
                LET quotient == ((next_year.pop - current.pop) * 100000) \div current.pop
                    actual_growth == IF quotient > MaxFinite THEN INF ELSE quotient
                    birth == Get(current, "birth", 15000)
                    death == Get(current, "death", 7000)
                    gdp == Get(current, "gdp", 3000)
                IN  Return(<<[birthRate |-> birth \div 50,
                              deathRate |-> death \div 20,
                              naturalIncrease |-> (birth - death) \div 30,
                              birthDeathRatio |-> (birth * 1000) \div Max(death, 1000),
                              gdpLog |-> Log1p(gdp) \div 15,
                              lifeExpectancy |-> Get(country, "lifeExpectancy", 0) \div 100,
                              urbanization |-> Get(country, "urbanization", 0) \div 100,
                              target |-> actual_growth,
                              country |-> Get(country, "name", ""),
                              year |-> Get(current, "year", 0)]>>
                           \o rest.value)

\* prepare_training_data: an empty frame has no feature columns (KeyError)
RECURSIVE AllSamples(_, _)
AllSamples(countries_data, c) ==
    IF c > Len(countries_data) THEN Return(<<>>)
    ELSE
      LET mine == CountrySamples(countries_data[c], 1)
          rest == AllSamples(countries_data, c + 1)
      IN  IF ~mine.ok THEN mine
          ELSE IF ~rest.ok THEN rest
          ELSE Return(mine.value \o rest.value)

PrepareTrainingData(countries_data) ==
    LET all == AllSamples(countries_data, 1)
    IN  IF ~all.ok THEN all
        ELSE IF all.value = <<>> THEN Raise("KeyError", <<>>)
        ELSE all

\* train lines 178-181
FeatureImportance(self) ==
    [n \in {self.feature_names[i] : i \in 1..Len(self.feature_names)} |-> self.model.run]

\* train lines 162-194: the metrics are computed from the fitted regressor
TrainingMetrics(self) ==
    [val_r2 |-> 900 + self.model.run,
     feature_importance |-> FeatureImportance(self)]

\* save_model: the bundle written by joblib.dump
Bundle(self) ==
    [model |-> self.model,
     training_metrics |-> self.training_metrics,
     feature_importance |-> self.feature_importance,
     feature_names |-> self.feature_names,
     is_trained |-> self.is_trained]

\* the file at the model path: a pickled dict (format "dict") or, in the old
\* format, a pickled regressor (format "model"); saver is the wrapper whose
\* save_model call wrote it (Unallocated when the file came from elsewhere)
NoFile == [exists |-> FALSE, format |-> "dict", data |-> Bundle(Unallocated),
           saver |-> Unallocated]
File(bundle) == [exists |-> TRUE, format |-> "dict", data |-> bundle,
                 saver |-> Unallocated]
OldFile(regressor) == [exists |-> TRUE, format |-> "model", data |-> regressor,
                       saver |-> Unallocated]

\* save_model: what joblib.dump leaves at the path
SaveModel(self) == [File(Bundle(self)) EXCEPT !.saver = self]

\* a load that restores the regressor only, as for an old-format file
LoadModelOnly(self, file) ==
    IF ~file.exists THEN Raise("FileNotFoundError", self)
    ELSE Return([self EXCEPT
                   !.model = IF file.format = "dict"
                             THEN Get(file.data, "model", NoModel) ELSE file.data,
                   !.training_metrics = EmptyDict,
                   !.feature_importance = EmptyDict,
                   !.is_trained = TRUE])

\* load_model: the new format (a dict) is read with .get and its defaults,
\* the old format is the regressor itself
LoadModel(self, file) ==
    IF ~file.exists THEN Raise("FileNotFoundError", self)
    ELSE IF file.format = "dict"
    THEN Return([model |-> Get(file.data, "model", NoModel),
                 training_metrics |-> Get(file.data, "training_metrics", EmptyDict),
                 feature_importance |-> Get(file.data, "feature_importance", EmptyDict),
                 feature_names |-> Get(file.data, "feature_names", self.feature_names),
                 is_trained |-> Get(file.data, "is_trained", TRUE)])
    ELSE Return([self EXCEPT !.model = file.data,
                             !.training_metrics = EmptyDict,
                             !.feature_importance = EmptyDict,
                             !.is_trained = TRUE])

-----------------------------------------------------------------------------
(* Inputs *)

Hist(y, p, b, d, g) == [year |-> y, pop |-> p, birth |-> b, death |-> d, gdp |-> g]

VN ==
    [name |-> "Viet Nam", country_code |-> "VN", population |-> 98800,
     birthRate |-> 14800, deathRate |-> 7200, gdpPerCapita |-> 4164,
     urbanization |-> 38200, educationIndex |-> 707, healthcareSpending |-> 5300,
     fertilityRate |-> 2000, medianAge |-> 32500, lifeExpectancy |-> 75400]

JP ==
    [name |-> "Nhat Ban", country_code |-> "JP", population |-> 123300,
     birthRate |-> 6900, deathRate |-> 12100, gdpPerCapita |-> 40000,
     urbanization |-> 91800, educationIndex |-> 844, healthcareSpending |-> 11100,
     fertilityRate |-> 1300, medianAge |-> 49100, lifeExpectancy |-> 84800]

WithHistory(c, h) == [k \in DOMAIN c \cup {"historicalData"} |->
                        IF k = "historicalData" THEN h ELSE c[k]]

VNTrain == WithHistory(VN, <<Hist(2015, 9267, 15200, 6800, 2088),
                             Hist(2020, 9733, 15000, 7000, 2786),
                             Hist(2025, 9880, 14800, 7200, 4164)>>)
JPTrain == WithHistory(JP, <<Hist(2020, 12550, 7000, 11100, 40113),
                             Hist(2025, 12330, 6900, 12100, 33815)>>)
\* a series whose first population is 0
ZeroTrain == WithHistory(JP, <<Hist(2020, 0, 7000, 11100, 40113),
                               Hist(2025, 0, 6900, 12100, 33815)>>)
\* a series whose growth overflows the float
HugeTrain == WithHistory(JP, <<Hist(2020, 1, 7000, 11100, 40113),
                               Hist(2025, 12330, 6900, 12100, 33815)>>)
\* a series of one year: no pair
ShortTrain == WithHistory(JP, <<Hist(2025, 12330, 6900, 12100, 33815)>>)

TrainingInputs ==
    { <<>>, <<VNTrain>>, <<ShortTrain>>, <<VNTrain, JPTrain>>,
      <<VNTrain, ZeroTrain>>, <<VNTrain, HugeTrain>> }

\* a country whose life expectancy is not known
NoLifeTrain == Del(JPTrain, "lifeExpectancy")

\* the datasets a direct caller passes to train
DirectTrainingInputs == TrainingInputs \cup { <<VNTrain, NoLifeTrain>> }

CountryInputs == { VN, JP, Del(VN, "medianAge"), Del(JP, "country_code") }

\* the mappings a direct caller passes to predict and forecast
DirectInputs == { VN, JP, Del(VN, "medianAge"), Del(VN, "birthRate") }

\* a feature ordering other than the configured one
Reordered ==
    <<"deathRate", "birthRate", "naturalIncrease", "birthDeathRatio",
      "gdpLog", "lifeExpectancy", "urbanization">>

\* a regressor fitted elsewhere, on a frame with the other ordering
ForeignRegressor == FitOn(Regressor(9), Reordered)

\* model files that were not written by this version's save_model: a bundle
\* trained under the other ordering, a bundle that records no ordering, and
\* an old-format file
ForeignFiles ==
    { File([model |-> ForeignRegressor, training_metrics |-> EmptyDict,
            feature_importance |-> EmptyDict, feature_names |-> Reordered,
            is_trained |-> TRUE]),
      File([model |-> ForeignRegressor]),
      OldFile(ForeignRegressor) }

Horizons == 0..MaxYears

-----------------------------------------------------------------------------
(* Objects of the process *)

W_TRAIN == 1     \* the wrapper train.get_model creates
W_PRED == 2      \* the wrapper predict.get_model creates
W_DIRECT == 3    \* a wrapper owned by a direct caller of the class
SchedIds == {4, 5}   \* wrappers run_model_training creates; an id is reused
                     \* once no global refers to its object
WrapperIds == {W_TRAIN, W_PRED, W_DIRECT} \cup SchedIds

S_PIPELINE == 1  \* a thread or process inside DataPipeline.save_to_database
S_FETCH == 2     \* the process inside the loop of fetch_un_data
SaverIds == {S_PIPELINE, S_FETCH}
IdleTx == [pc |-> "idle"]

NoJob == [kind |-> "none", pc |-> "idle"]
NoReq == [pc |-> "none"]
NoCall == [op |-> "none"]

Init ==
    /\ wrappers = [i \in WrapperIds |-> IF i = W_DIRECT THEN NewWrapper ELSE Unallocated]
    /\ trainRef = 0
    /\ predRef = 0
    /\ disk = NoFile
    /\ job = NoJob
    /\ req = NoReq
    /\ runs = 0
    /\ succeeded = {}
    /\ call = NoCall
    /\ memo = NoCall
    /\ store = {}
    /\ tx = [s \in SaverIds |-> IdleTx]

Idle == job = NoJob

\* a /predict request waiting while a /train handler starts overlaps it
MarkOverlap(r) == IF r.pc = "queued" THEN [r EXCEPT !.overlap = TRUE] ELSE r

NewJob(kind, w, countries, before) ==
    [kind |-> kind, pc |-> "prepare", w |-> w, countries |-> countries,
     before |-> before, X |-> <<>>, y |-> <<>>, ok |-> FALSE, status |-> 0,
     err |-> "none"]

Failed(j, e) == [j EXCEPT !.pc = "done", !.ok = FALSE, !.err = e,
                          !.status = IF j.kind = "endpoint" THEN 500 ELSE 0]

\* train.get_model, then train_model lines 34-41
StartTrainEndpoint(countries) ==
    /\ Idle
    /\ runs < MaxRuns
    /\ LET fresh == trainRef = 0
           heap == IF fresh THEN [wrappers EXCEPT ![W_TRAIN] = NewWrapper] ELSE wrappers
           j == NewJob("endpoint", W_TRAIN, countries, heap[W_TRAIN])
       IN  /\ wrappers' = heap
           /\ trainRef' = W_TRAIN
           /\ job' = IF Len(countries) < 2 THEN Failed(j, "HTTPException400") ELSE j
    /\ req' = MarkOverlap(req)
    /\ UNCHANGED <<predRef, disk, runs, succeeded, call, memo, store, tx>>

\* run_model_training lines 87-91: the countries are those of the database
StartScheduler(countries) ==
    /\ Idle
    /\ runs < MaxRuns
    /\ IF countries = <<>>
       THEN /\ job' = [NewJob("scheduler", 0, countries, NewWrapper)
                         EXCEPT !.pc = "done", !.err = "NoData"]
            /\ UNCHANGED wrappers
       ELSE \E w \in SchedIds :
              /\ w # predRef
              /\ \A v \in SchedIds : (v # predRef) => w <= v
              /\ wrappers' = [wrappers EXCEPT ![w] = NewWrapper]
              /\ job' = NewJob("scheduler", w, countries, NewWrapper)
    /\ UNCHANGED <<trainRef, predRef, disk, req, runs, succeeded, call, memo,
                 store, tx>>

\* main.py startup_event lines 50-53, train_model.main: a local wrapper is
\* trained and saved before the first request is served
StartScript(countries) ==
    /\ Idle
    /\ runs = 0 /\ trainRef = 0 /\ predRef = 0
    /\ IF Len(countries) < 2
       THEN /\ job' = [NewJob("script", 0, countries, NewWrapper)
                         EXCEPT !.pc = "done", !.err = "NoData"]
            /\ UNCHANGED wrappers
       ELSE \E w \in SchedIds :
              /\ \A v \in SchedIds : w <= v
              /\ wrappers' = [wrappers EXCEPT ![w] = NewWrapper]
              /\ job' = NewJob("script", w, countries, NewWrapper)
    /\ UNCHANGED <<trainRef, predRef, disk, req, runs, succeeded, call, memo,
                 store, tx>>

\* a direct call of train on the caller's wrapper (the caller's notes of its
\* earlier calls, call and memo, are about the model before this one)
StartDirect(countries) ==
    /\ Idle
    /\ runs < MaxRuns
    /\ job' = NewJob("direct", W_DIRECT, countries, wrappers[W_DIRECT])
    /\ call' = NoCall
    /\ memo' = NoCall
    /\ UNCHANGED <<wrappers, trainRef, predRef, disk, req, runs, succeeded,
                 store, tx>>

\* train line 135
StepPrepare ==
    /\ job.pc = "prepare"
    /\ LET xy == PrepareTrainingData(job.countries)
       IN  job' = IF xy.ok
                  THEN [job EXCEPT !.pc = "construct",
                                   !.X = xy.value,
                                   !.y = [i \in 1..Len(xy.value) |-> xy.value[i].target]]
                  ELSE Failed(job, xy.err)
    /\ UNCHANGED <<wrappers, trainRef, predRef, disk, req, runs, succeeded,
                 call, memo, store, tx>>

\* train line 150
StepConstruct ==
    /\ job.pc = "construct"
    /\ runs' = runs + 1
    /\ wrappers' = [wrappers EXCEPT ![job.w].model = Regressor(runs + 1)]
    /\ job' = [job EXCEPT !.pc = "fit"]
    /\ UNCHANGED <<trainRef, predRef, disk, req, succeeded, call, memo,
                 store, tx>>

\* train line 153: the regressor rejects a label that is not finite
StepFit ==
    /\ job.pc = "fit"
    /\ IF \E i \in 1..Len(job.y) : IsInf(job.y[i])
       THEN /\ job' = Failed(job, "XGBoostError")
            /\ UNCHANGED wrappers
       ELSE /\ job' = [job EXCEPT !.pc = "cv"]
            /\ wrappers' = [wrappers EXCEPT
                              ![job.w].model = FitOn(@, wrappers[job.w].feature_names)]
    /\ UNCHANGED <<trainRef, predRef, disk, req, runs, succeeded, call, memo,
                 store, tx>>

\* train lines 156-157
StepCv ==
    /\ job.pc = "cv"
    /\ job' = [job EXCEPT !.pc = "record"]
    /\ UNCHANGED <<wrappers, trainRef, predRef, disk, req, runs, succeeded,
                 call, memo, store, tx>>

\* train lines 156-157: the worker processes of cross_val_score fail
StepCvFail ==
    /\ job.pc = "cv"
    /\ job' = Failed(job, "WorkerError")
    /\ UNCHANGED <<wrappers, trainRef, predRef, disk, req, runs, succeeded,
                 call, memo, store, tx>>

\* the wrapper after train lines 162-196
Recorded(self) ==
    [self EXCEPT !.feature_importance = FeatureImportance(self),
                 !.training_metrics = TrainingMetrics(self),
                 !.is_trained = TRUE]

StepRecord ==
    /\ job.pc = "record"
    /\ wrappers' = [wrappers EXCEPT ![job.w] = Recorded(@)]
    /\ job' = [job EXCEPT !.pc = "save"]
    /\ UNCHANGED <<trainRef, predRef, disk, req, runs, succeeded, call, memo,
                 store, tx>>

\* a train handler that leaves the prediction router's instance alone
SyncPredictNever(j, ref) == ref

\* train_model lines 43-47 and run_model_training line 92:
\* `predict._model_instance = model`
SyncPredict(j, ref) == IF j.kind \in {"endpoint", "scheduler"} THEN j.w ELSE ref

\* train lines 199-205 (save_metrics_to_db catches its own errors)
StepSave ==
    /\ job.pc = "save"
    /\ disk' = SaveModel(wrappers[job.w])
    /\ job' = [job EXCEPT !.pc = "done", !.ok = TRUE,
                          !.status = IF job.kind = "endpoint" THEN 200 ELSE 0]
    /\ predRef' = SyncPredict(job, predRef)
    /\ succeeded' = succeeded \cup {job.w}
    /\ UNCHANGED <<wrappers, trainRef, req, runs, call, memo, store, tx>>

\* save_model lines 300-311: os.makedirs or joblib.dump raises
StepSaveFail ==
    /\ job.pc = "save"
    /\ job' = Failed(job, "OSError")
    /\ UNCHANGED <<wrappers, trainRef, predRef, disk, req, runs, succeeded,
                 call, memo, store, tx>>

\* the call returns (or its exception reaches the caller)
Retire ==
    /\ job.pc = "done"
    /\ job' = NoJob
    /\ LET garbage == job.w \in SchedIds /\ predRef # job.w
       IN  /\ wrappers' = IF garbage THEN [wrappers EXCEPT ![job.w] = Unallocated] ELSE wrappers
           /\ succeeded' = IF garbage THEN succeeded \ {job.w} ELSE succeeded
    /\ UNCHANGED <<trainRef, predRef, disk, req, runs, call, memo, store, tx>>

TrainSteps ==
    \/ StepPrepare
    \/ StepConstruct
    \/ StepFit
    \/ StepCv
    \/ StepCvFail
    \/ StepRecord
    \/ StepSave
    \/ StepSaveFail
    \/ Retire

-----------------------------------------------------------------------------
(* RAGService *)

Some(v) == <<v>>
Nothing == <<>>

\* collection.query with n_results and the where filter: the vector store
\* ranks its documents; the filter is applied only when one is given
RECURSIVE VectorQuery(_, _, _)
VectorQuery(collection, country_code, n_results) ==
    IF collection = <<>> \/ n_results = 0 THEN <<>>
    ELSE IF country_code = "" \/ Head(collection).metadata.country_code = country_code
         THEN <<Head(collection)>> \o VectorQuery(Tail(collection), country_code, n_results - 1)
         ELSE VectorQuery(Tail(collection), country_code, n_results)

\* retrieve_relevant_news
RetrieveRelevantNews(env, country_code, top_k) ==
    IF ~env.vector_ready THEN Return(<<>>)
    ELSE IF env.search_raises THEN Raise("VectorSearchError", <<>>)
    ELSE Return(VectorQuery(env.collection, country_code, top_k))

\* a comparison that keeps the case of the letters
LowerNot(word) == word

\* str.lower on a word of the document vocabulary
Lower(word) ==
    CASE word = "KHUYEN SINH" -> "khuyen sinh"
      [] word = "Dai Dich" -> "dai dich"
      [] OTHER -> word

BirthKeywords == {"khuyen sinh", "tang sinh", "tro cap sinh con"}
DisasterKeywords == {"dai dich", "dich benh", "thien tai"}
GrowthKeywords == {"tang truong kinh te", "phat trien", "dau tu"}

\* the lower-cased words of all the articles (line 204)
NewsText(news_articles) ==
    UNION { { Lower(news_articles[i].content[j]) : j \in 1..Len(news_articles[i].content) }
            : i \in 1..Len(news_articles) }

\* _manual_analysis
ManualAnalysis(news_articles, current_features) ==
    LET news_text == NewsText(news_articles)
        birth == news_text \cap BirthKeywords # {}
        disaster == news_text \cap DisasterKeywords # {}
        growth == news_text \cap GrowthKeywords # {}
        keys == (IF birth THEN {"birthRate", "fertilityRate"} ELSE {})
                \cup (IF disaster THEN {"deathRate"} ELSE {})
                \cup (IF growth THEN {"gdpPerCapita"} ELSE {})
        adjustments ==
            [k \in keys |->
                CASE k = "birthRate" -> 300
                  [] k = "fertilityRate" -> 200
                  [] k = "deathRate" -> 500
                  [] OTHER -> (Get(current_features, "gdpPerCapita", 0) * 5) \div 100]
    IN  [adjustments |-> adjustments,
         reasoning |-> <<birth, disaster, growth>>,
         confidence |-> IF adjustments # EmptyDict THEN 600 ELSE 300]

\* str.find / str.rfind, 0-based, -1 when absent
RECURSIVE Find(_, _, _)
Find(text, ch, from) ==
    IF from > Len(text) THEN -1
    ELSE IF text[from] = ch THEN from - 1
    ELSE Find(text, ch, from + 1)

RECURSIVE RFind(_, _, _)
RFind(text, ch, from) ==
    IF from < 1 THEN -1
    ELSE IF text[from] = ch THEN from - 1
    ELSE RFind(text, ch, from - 1)

\* json.loads of a slice: the texts that decode, and what they decode to
JsonLoads(json_str) ==
    IF json_str = <<"{", "ADJ", "}">>
    THEN Return([adjustments |-> [birthRate |-> 500, deathRate |-> 200, unknownKey |-> 1000],
                 reasoning |-> <<TRUE, TRUE, FALSE>>,
                 confidence |-> 800])
    ELSE IF json_str = <<"{", "}">> THEN Return(EmptyDict)
    ELSE Raise("JSONDecodeError", EmptyDict)

NoNewsAdjustment == [adjustments |-> EmptyDict, reasoning |-> <<"no news">>, confidence |-> 0]
NoGenAIAdjustment == [adjustments |-> EmptyDict, reasoning |-> <<"no genai">>, confidence |-> 0]
Apology == <<"Xin", "loi">>

\* _call_gemini_chat / _call_openai_chat: an exception becomes the apology
CallChat(env) == IF env.gen_raises THEN Apology ELSE env.text

\* the outcome of the adjuster, with the number of calls it made to the text
\* generation (lines 171-174)
WithChat(r, n) == [ok |-> r.ok, value |-> r.value, err |-> r.err, chat_calls |-> n]

\* an adjuster that never takes the no-news exit
NoNewsNever(relevant_news) == FALSE

\* generate_contextual_adjustments line 128: `if not relevant_news`
NoNews(relevant_news) == relevant_news = <<>>

\* an adjuster that lets a parse failure reach its caller
ParseFailureRaises(e, relevant_news, current_features) == Raise(e, EmptyDict)

\* generate_contextual_adjustments lines 193-197: a parse failure is printed
\* and the articles are analysed by the keyword rules
ParseFailure(e, relevant_news, current_features) ==
    Return(ManualAnalysis(relevant_news, current_features))

\* generate_contextual_adjustments
GenerateContextualAdjustments(env, country_code, country_name, current_features) ==
    LET relevant_news == RetrieveRelevantNews(env, country_code, 3)
    IN  IF ~relevant_news.ok THEN WithChat(Raise(relevant_news.err, EmptyDict), 0)
        ELSE IF NoNews(relevant_news.value) THEN WithChat(Return(NoNewsAdjustment), 0)
        ELSE IF ~env.gen_configured THEN WithChat(Return(NoGenAIAdjustment), 0)
        ELSE
          LET response == CallChat(env)
              json_start == Find(response, "{", 1)
              json_end == RFind(response, "}", Len(response)) + 1
              decoded == IF json_start # -1 /\ json_end > json_start
                         THEN JsonLoads(SubSeq(response, json_start + 1, json_end))
                         ELSE Raise("NoJson", EmptyDict)
          IN  IF decoded.ok THEN WithChat(decoded, 1)
              ELSE WithChat(ParseFailure(decoded.err, relevant_news.value,
                                         current_features), 1)

Doc(code, words) == [content |-> words, metadata |-> [country_code |-> code], distance |-> 0]

Collections ==
    { <<>>,
      <<Doc("VN", <<"KHUYEN SINH">>), Doc("JP", <<"dai dich">>)>>,
      <<Doc("VN", <<"thoi su">>), Doc("JP", <<"dau tu">>)>> }

Texts ==
    { <<"{", "ADJ", "}">>, <<"x", "{", "ADJ", "}", "x">>, <<"}", "x", "{">>,
      <<"{", "x", "}">>, <<"x">>, <<"{", "}">>, <<"{", "x">>, <<"x", "}">> }

NoEnv == [vector_ready |-> FALSE, search_raises |-> FALSE, collection |-> <<>>,
          gen_configured |-> FALSE, gen_raises |-> FALSE, text |-> <<>>]

\* what the two external capabilities do during one request
Envs ==
    { NoEnv }
    \cup { [NoEnv EXCEPT !.vector_ready = TRUE, !.search_raises = TRUE] }
    \cup { [NoEnv EXCEPT !.vector_ready = TRUE, !.collection = c] : c \in Collections }
    \cup { [NoEnv EXCEPT !.vector_ready = TRUE, !.collection = c,
                         !.gen_configured = TRUE, !.gen_raises = TRUE] : c \in Collections }
    \cup { [NoEnv EXCEPT !.vector_ready = TRUE, !.collection = c,
                         !.gen_configured = TRUE, !.text = t] : c \in Collections, t \in Texts }

-----------------------------------------------------------------------------
(* /predict *)

\* predict.get_model: the object predict._model_instance refers to afterwards
PredictGetModel ==
    IF predRef # 0 THEN wrappers[predRef]
    ELSE LET loaded == LoadModel(NewWrapper, disk)
         IN  IF loaded.ok THEN loaded.value ELSE NewWrapper

\* a fusion that also injects the keys only the adjustment has
FuseInjecting(adjusted_features, adjustments) ==
    [k \in DOMAIN adjusted_features \cup DOMAIN adjustments |->
        IF k \notin DOMAIN adjustments THEN adjusted_features[k]
        ELSE IF k \notin DOMAIN adjusted_features THEN adjustments[k]
        ELSE adjusted_features[k] + adjustments[k]]

\* predict_population lines 73-77
Fuse(adjusted_features, adjustments) ==
    [k \in DOMAIN adjusted_features |->
        IF k \in DOMAIN adjustments THEN adjusted_features[k] + adjustments[k]
        ELSE adjusted_features[k]]

Response(status, forecast, metrics, rag) ==
    [status |-> status, forecast |-> forecast, metrics |-> metrics, rag_adjustments |-> rag]

\* a handler that consults the adjuster for every request
UseRagAlways(request) == TRUE

\* predict_population line 63: `if request.use_rag`
UseRag(request) == request.use_rag

\* predict_population lines 52-91: the response, with the handler's locals
PredictPopulation(model, request, env) ==
    LET adjustments ==
            IF UseRag(request)
            THEN GenerateContextualAdjustments(env,
                     Get(request.country_data, "country_code", ""),
                     Get(request.country_data, "name", ""),
                     request.country_data)
            ELSE WithChat(Return(EmptyDict), 0)
        applies == UseRag(request) /\ adjustments.ok
                   /\ Get(adjustments.value, "adjustments", EmptyDict) # EmptyDict
        adjusted_features ==
            IF applies THEN Fuse(request.country_data, adjustments.value.adjustments)
            ELSE request.country_data
        forecast == IF adjustments.ok THEN Forecast(model, adjusted_features, request.years)
                    ELSE Raise("NotCalled", <<>>)
        response ==
            IF ~model.is_trained THEN Response(400, Nothing, Nothing, Nothing)
            ELSE IF ~adjustments.ok THEN Response(500, Nothing, Nothing, Nothing)
            ELSE IF ~forecast.ok THEN Response(500, Nothing, Nothing, Nothing)
            ELSE Response(200, Some(forecast.value), Some(model.training_metrics),
                          IF applies THEN Some(adjustments.value) ELSE Nothing)
        \* the mapping handed to forecast, after the call
        features_after ==
            IF model.is_trained /\ adjustments.ok
            THEN CallerData(adjusted_features,
                            DataAtExit(model, adjusted_features, 1, request.years))
            ELSE adjusted_features
    IN  [response |-> response,
         features_after |-> features_after,
         country_data_after |-> CallerData(request.country_data, features_after),
         adjuster_ok |-> adjustments.ok,
         adjuster_calls |-> IF UseRag(request) THEN 1 ELSE 0,
         adjustments |-> adjustments,
         adjusted_features |-> adjusted_features,
         forecast |-> forecast]

\* an environment in which the adjuster, if it were called, would give deltas
ActiveEnv ==
    [NoEnv EXCEPT !.vector_ready = TRUE,
                  !.collection = <<Doc("VN", <<"KHUYEN SINH">>), Doc("JP", <<"dai dich">>)>>,
                  !.gen_configured = TRUE,
                  !.text = <<"{", "ADJ", "}">>]

Requests ==
    { [country_data |-> d, years |-> y, use_rag |-> FALSE, env |-> NoEnv]
        : d \in CountryInputs, y \in Horizons }
    \cup { [country_data |-> d, years |-> MaxYears - 1, use_rag |-> FALSE, env |-> ActiveEnv]
        : d \in CountryInputs }
    \cup { [country_data |-> d, years |-> MaxYears - 1, use_rag |-> TRUE, env |-> e]
        : d \in CountryInputs, e \in Envs }

\* a /predict request reaches the server
Arrive ==
    /\ req = NoReq
    /\ req' = [pc |-> "queued", overlap |-> job.kind = "endpoint"]
    /\ UNCHANGED <<wrappers, trainRef, predRef, disk, job, runs, succeeded,
                 call, memo, store, tx>>

\* the event loop runs predict_population to its end
HandlePredict(request) ==
    /\ req.pc = "queued"
    /\ Idle
    /\ LET model == PredictGetModel
           locals == PredictPopulation(model, request, request.env)
       IN  /\ wrappers' = IF predRef = 0 THEN [wrappers EXCEPT ![W_PRED] = model] ELSE wrappers
           /\ predRef' = IF predRef = 0 THEN W_PRED ELSE predRef
           /\ succeeded' = IF predRef = 0 /\ disk.exists THEN succeeded \cup {W_PRED}
                           ELSE succeeded
           /\ req' = [pc |-> "answered", overlap |-> req.overlap, request |-> request,
                      seen |-> model, response |-> locals.response, locals |-> locals]
    /\ UNCHANGED <<trainRef, disk, job, runs, call, memo, store, tx>>

\* the response is sent
Respond ==
    /\ req.pc = "answered"
    /\ req' = NoReq
    /\ UNCHANGED <<wrappers, trainRef, predRef, disk, job, runs, succeeded,
                 call, memo, store, tx>>

\* what GET /train/status answers in this state (training_status)
TrainingStatus ==
    LET model == IF trainRef = 0 THEN NewWrapper ELSE wrappers[trainRef]
    IN  [is_trained |-> model.is_trained,
         metrics |-> IF model.is_trained THEN Some(model.training_metrics) ELSE Nothing]

\* what GET /model/status answers in this state (model_status)
ModelStatus ==
    LET model == PredictGetModel
    IN  [is_trained |-> model.is_trained,
         metrics |-> IF model.is_trained THEN Some(model.training_metrics) ELSE Nothing,
         feature_importance |->
             IF model.is_trained THEN Some(model.feature_importance) ELSE Nothing]

\* GET /train/status: train.get_model creates the wrapper on first use
GetTrainingStatus ==
    /\ Idle
    /\ trainRef = 0
    /\ trainRef' = W_TRAIN
    /\ wrappers' = [wrappers EXCEPT ![W_TRAIN] = NewWrapper]
    /\ UNCHANGED <<predRef, disk, job, req, runs, succeeded, call, memo,
                 store, tx>>

\* GET /model/status: predict.get_model creates and loads on first use
GetModelStatus ==
    /\ Idle
    /\ predRef = 0
    /\ predRef' = W_PRED
    /\ wrappers' = [wrappers EXCEPT ![W_PRED] = PredictGetModel]
    /\ succeeded' = IF disk.exists THEN succeeded \cup {W_PRED} ELSE succeeded
    /\ UNCHANGED <<trainRef, disk, job, req, runs, call, memo, store, tx>>

\* the server process: startup, the two routers and the scheduler's retrain
Next ==
    \/ \E countries \in TrainingInputs : StartScript(countries)
    \/ \E countries \in TrainingInputs : StartTrainEndpoint(countries)
    \/ \E countries \in TrainingInputs : StartScheduler(countries)
    \/ TrainSteps
    \/ Arrive
    \/ \E request \in Requests : HandlePredict(request)
    \/ Respond
    \/ GetTrainingStatus
    \/ GetModelStatus

Spec == Init /\ [][Next]_vars

-----------------------------------------------------------------------------
(* Ingestion: DataPipeline.save_to_database and fetch_un_data *)

Codes == {"VN", "TH"}
Years == {2023, 2024}
\* the population a save carries
Populations == {98, 99}

\* the server part of the state
server == <<wrappers, trainRef, predRef, disk, job, req, runs, succeeded, call, memo>>

\* db.query(CountryData).filter(country_code == ..., year == ...).first():
\* the id of the row found, 0 for None
First(rows, country_code, year) ==
    LET found == { r \in rows : r.country_code = country_code /\ r.year = year }
    IN  IF found = {} THEN 0
        ELSE (CHOOSE r \in found : \A q \in found : r.id <= q.id).id

\* the next value of the primary key
NextId(rows) ==
    IF rows = {} THEN 1
    ELSE (CHOOSE r \in rows : \A q \in rows : r.id >= q.id).id + 1

\* a table without the constraint
UniqueNeverViolated(rows, country_code, year) == FALSE

\* database.py lines 15-17: UniqueConstraint("country_code", "year"), checked
\* by the database when the INSERT is flushed
UniqueViolated(rows, country_code, year) ==
    \E r \in rows : r.country_code = country_code /\ r.year = year

\* save_to_database lines 141-164, fetch_un_data lines 238-242: the save
\* looks for the row of its (country_code, year)
SaveQuery(s, country_code, year, population) ==
    /\ tx[s].pc = "idle"
    /\ tx' = [tx EXCEPT ![s] =
                 [pc |-> "queried", country_code |-> country_code, year |-> year,
                  population |-> population,
                  existing |-> First(store, country_code, year)]]
    /\ UNCHANGED store
    /\ UNCHANGED server

\* save_to_database lines 166-180, fetch_un_data lines 244-275: the row found
\* is updated, or a new row is added; db.commit() sends the statement.  A
\* rejected INSERT raises IntegrityError: save_to_database prints it,
\* fetch_un_data rolls back and raises it again
SaveCommit(s) ==
    /\ tx[s].pc = "queried"
    /\ LET t == tx[s]
           done(outcome) == [tx EXCEPT ![s] = [t EXCEPT !.pc = "done"] @@ [outcome |-> outcome]]
       IN  IF t.existing # 0
           THEN /\ store' = { IF r.id = t.existing
                              THEN [r EXCEPT !.population = t.population] ELSE r
                              : r \in store }
                /\ tx' = done("updated")
           ELSE IF UniqueViolated(store, t.country_code, t.year)
           THEN /\ store' = store
                /\ tx' = done("IntegrityError")
           ELSE /\ Cardinality(store) < MaxRecords
                /\ store' = store \cup
                       { [id |-> NextId(store), country_code |-> t.country_code,
                          year |-> t.year, population |-> t.population] }
                /\ tx' = done("added")
    /\ UNCHANGED server

\* the save returns (or its exception leaves it)
SaveReturn(s) ==
    /\ tx[s].pc = "done"
    /\ tx' = [tx EXCEPT ![s] = IdleTx]
    /\ UNCHANGED store
    /\ UNCHANGED server

\* the ingestion processes, running together
IngestNext ==
    \/ \E s \in SaverIds, country_code \in Codes, year \in Years, population \in Populations :
          SaveQuery(s, country_code, year, population)
    \/ \E s \in SaverIds : SaveCommit(s)
    \/ \E s \in SaverIds : SaveReturn(s)

IngestSpec == Init /\ [][IngestNext]_vars

-----------------------------------------------------------------------------
(* Direct use of the class by one caller *)

Snapshot(self) == [model |-> self.model, is_trained |-> self.is_trained]

\* model.predict(features)
CallPredict(features) ==
    /\ Idle
    /\ call' = [op |-> "predict", self |-> Snapshot(wrappers[W_DIRECT]),
                entitled |-> W_DIRECT \in succeeded, after |-> call.op,
                data |-> features, years |-> 0,
                result |-> Predict(wrappers[W_DIRECT], features)]
    /\ UNCHANGED <<wrappers, trainRef, predRef, disk, job, req, runs,
                 succeeded, memo, store, tx>>

\* model.forecast(initial_data, years)
CallForecast(initial_data, years) ==
    /\ Idle
    /\ call' = [op |-> "forecast", self |-> Snapshot(wrappers[W_DIRECT]),
                entitled |-> W_DIRECT \in succeeded, after |-> call.op,
                data |-> initial_data, years |-> years,
                fed |-> IF wrappers[W_DIRECT].is_trained
                        THEN FedFeatures(wrappers[W_DIRECT], initial_data, 1, years)
                        ELSE <<>>,
                result |-> Forecast(wrappers[W_DIRECT], initial_data, years)]
    /\ UNCHANGED <<wrappers, trainRef, predRef, disk, job, req, runs,
                 succeeded, memo, store, tx>>

\* model.load_model()
CallLoadModel ==
    /\ Idle
    /\ LET loaded == LoadModel(wrappers[W_DIRECT], disk)
       IN  /\ wrappers' = [wrappers EXCEPT ![W_DIRECT] = loaded.value]
           /\ succeeded' = IF loaded.ok THEN succeeded \cup {W_DIRECT} ELSE succeeded
           /\ call' = [op |-> "load_model", fresh |-> FALSE, file |-> disk,
                       before |-> wrappers[W_DIRECT], result |-> loaded]
    /\ memo' = NoCall
    /\ UNCHANGED <<trainRef, predRef, disk, job, req, runs, store, tx>>

\* PopulationXGBoostModel().load_model(): the caller loads the file into a
\* wrapper it has just created
CallLoadFresh ==
    /\ Idle
    /\ call' = [op |-> "load_model", fresh |-> TRUE, file |-> disk,
                before |-> NewWrapper, result |-> LoadModel(NewWrapper, disk)]
    /\ memo' = NoCall
    /\ UNCHANGED <<wrappers, trainRef, predRef, disk, job, req, runs,
                 succeeded, store, tx>>

\* a model file written elsewhere is put at the model path
InstallFile(file) ==
    /\ Idle
    /\ disk' = file
    /\ call' = NoCall
    /\ memo' = NoCall
    /\ UNCHANGED <<wrappers, trainRef, predRef, job, req, runs, succeeded,
                 store, tx>>

\* the caller keeps the outcome of a forecast call to compare a later one with
Remember ==
    /\ call.op = "forecast"
    /\ memo' = [op |-> call.op, self |-> call.self, data |-> call.data,
                years |-> call.years, result |-> call.result]
    /\ call' = NoCall
    /\ UNCHANGED <<wrappers, trainRef, predRef, disk, job, req, runs,
                 succeeded, store, tx>>

DirectNext ==
    \/ \E countries \in DirectTrainingInputs : StartDirect(countries)
    \/ TrainSteps
    \/ \E features \in DirectInputs : CallPredict(features)
    \/ \E initial_data \in DirectInputs, years \in Horizons : CallForecast(initial_data, years)
    \/ CallLoadModel
    \/ CallLoadFresh
    \/ \E file \in ForeignFiles : InstallFile(file)
    \/ Remember

WrapperSpec == Init /\ [][DirectNext]_vars

-----------------------------------------------------------------------------
(* Properties *)

\* the state the forecast loop holds when step t starts: the drift applied
\* t-1 times to the initial data
RECURSIVE StateAt(_, _)
StateAt(data, t) ==
    IF t <= 1 THEN data
    ELSE LET prev == StateAt(data, t - 1)
         IN  IF Drift(prev).ok THEN Drift(prev).value ELSE prev

\* step t of a forecast raises
StepFails(self, data, t) ==
    \/ ~Predict(self, SnapshotFeatures(StateAt(data, t))).ok
    \/ ~Drift(StateAt(data, t)).ok

\* C1: on a wrapper with no completed train call and no successful load_model
\* call, every predict and every forecast call fails with the not-trained
\* error and returns no value.
C1_UntrainedCallsFail ==
    (call.op \in {"predict", "forecast"} /\ ~call.entitled)
        => (~call.result.ok /\ call.result.err = "NotTrained")

\* C2: a train call given fewer than 2 countries fails, through every entry
\* point, and leaves the wrapper (regressor, is_trained, metrics, feature
\* importance) as it was.
C2_FewCountriesRejected ==
    (job.pc = "done" /\ Len(job.countries) < 2)
        => (~job.ok /\ (job.w \in WrapperIds => wrappers[job.w] = job.before))

\* C3: a train call that fails leaves the active (trained) model exactly as
\* it was before the call.
C3_FailedTrainKeepsModel ==
    (job.pc = "done" /\ ~job.ok /\ job.w \in WrapperIds /\ job.before.is_trained)
        => wrappers[job.w] = job.before

\* a wrapper in the middle of a replacement: trained with a regressor not yet
\* fitted, or a fitted regressor beside another run's metrics or importance
HalfReplaced(self) ==
    \/ self.is_trained /\ self.model # NoModel /\ ~self.model.fitted
    \/ /\ self.model.fitted
       /\ \/ self.training_metrics \notin {EmptyDict, TrainingMetrics(self)}
          \/ self.feature_importance \notin {EmptyDict, FeatureImportance(self)}

\* C4: a /predict request in flight together with a /train request never
\* observes a half-replaced model.
C4_NoHalfReplacedModelSeen ==
    (req.pc = "answered" /\ req.overlap) => ~HalfReplaced(req.seen)

\* C5: between requests, /train/status and /model/status report the same
\* is_trained and the same metrics.
C5_OneActiveModel ==
    Idle => /\ TrainingStatus.is_trained = ModelStatus.is_trained
            /\ TrainingStatus.metrics = ModelStatus.metrics

\* C6: when a step of the forecast raises, the forecast call raises and
\* returns no point, and /predict answers 500 without a forecast list.
C6_FailedForecastReturnsNothing ==
    (/\ req.pc = "answered"
     /\ req.seen.is_trained
     /\ req.locals.adjuster_ok
     /\ \E t \in 1..req.request.years :
            StepFails(req.seen, req.locals.adjusted_features, t))
        => /\ ~req.locals.forecast.ok
           /\ req.locals.forecast.value = <<>>
           /\ req.response.status = 500
           /\ req.response.forecast = Nothing

\* a forecast whose first two steps succeeded and whose third raised
C6_Witness ==
    /\ req.pc = "answered"
    /\ req.seen.is_trained
    /\ req.locals.adjuster_ok
    /\ req.request.years >= 3
    /\ ~StepFails(req.seen, req.locals.adjusted_features, 1)
    /\ ~StepFails(req.seen, req.locals.adjusted_features, 2)
    /\ StepFails(req.seen, req.locals.adjusted_features, 3)
    /\ req.response.status = 500

\* C7: a successful forecast returns exactly `years` points, the t-th
\* carrying the year 2025 + t.
C7_TrajectoryYears ==
    (call.op = "forecast" /\ call.result.ok)
        => /\ Len(call.result.value) = call.years
           /\ \A t \in 1..call.years : call.result.value[t].year = 2025 + t

\* a successful forecast of at least two points
C7_Witness ==
    /\ call.op = "forecast"
    /\ call.result.ok
    /\ call.years >= 2
    /\ Len(call.result.value) >= 2

\* C8: each forecast point reports the birth and death rates that were fed to
\* the predictor for that step (the rates before that step's drift).
C8_PointReportsPreDriftRates ==
    (call.op = "forecast" /\ call.result.ok)
        => \A t \in 1..Len(call.result.value) :
              /\ call.result.value[t].birthRate = StateAt(call.data, t)["birthRate"]
              /\ call.result.value[t].deathRate = StateAt(call.data, t)["deathRate"]

CapabilityFailed(env) ==
    \/ ~env.vector_ready
    \/ env.search_raises
    \/ ~env.gen_configured
    \/ env.gen_raises

\* C10: a failure of the vector search or of the text generation during a
\* prediction with contextual adjustment never aborts the forecast: the
\* adjuster returns, and the request gets its full trajectory.
C10_CapabilityFailureNeverAborts ==
    (/\ req.pc = "answered"
     /\ req.seen.is_trained
     /\ req.request.use_rag
     /\ CapabilityFailed(req.request.env))
        => /\ req.locals.adjuster_ok
           /\ req.locals.forecast.ok
                => /\ req.response.status = 200
                   /\ req.response.forecast # Nothing
                   /\ Len(req.response.forecast[1]) = req.request.years

\* the /predict request was answered by a trained model, with contextual
\* adjustment requested: generate_contextual_adjustments was called
AdjusterCalled ==
    /\ req.pc = "answered"
    /\ req.seen.is_trained
    /\ req.request.use_rag

\* what the retrieval of that request gave
Retrieved ==
    RetrieveRelevantNews(req.request.env,
                         Get(req.request.country_data, "country_code", ""), 3)

\* C11: with the text generation not configured and at least one document
\* retrieved, the adjuster returns the keyword-rule analysis of the retrieved
\* documents.
C11_UnconfiguredFallsBackToRules ==
    (/\ AdjusterCalled
     /\ ~req.request.env.gen_configured
     /\ Retrieved.ok
     /\ Retrieved.value # <<>>)
        => /\ req.locals.adjustments.ok
           /\ req.locals.adjustments.value =
                  ManualAnalysis(Retrieved.value, req.request.country_data)

\* an adjustment object: a deltas mapping, a rationale and a confidence in [0,1]
WellFormed(adjustment) ==
    /\ {"adjustments", "reasoning", "confidence"} \subseteq DOMAIN adjustment
    /\ adjustment["confidence"] \in 0..1000

\* C12: every value generate_contextual_adjustments returns is a well-formed
\* adjustment, whatever text the generation returned.
C12_AdjustmentWellFormed ==
    (AdjusterCalled /\ req.locals.adjustments.ok)
        => WellFormed(req.locals.adjustments.value)

\* C13: when the retrieval yields no document, the adjuster returns the no-op
\* adjustment, without calling the text generation and without raising.
C13_NoDocumentsNoOp ==
    (AdjusterCalled /\ Retrieved.ok /\ Retrieved.value = <<>>)
        => /\ req.locals.adjustments.ok
           /\ req.locals.adjustments.value = NoNewsAdjustment
           /\ req.locals.adjustments.value.adjustments = EmptyDict
           /\ req.locals.adjustments.value.confidence = 0
           /\ req.locals.adjustments.chat_calls = 0

\* an empty collection searched with the text generation configured
C13_Witness ==
    /\ AdjusterCalled
    /\ req.request.env.vector_ready
    /\ req.request.env.gen_configured
    /\ Retrieved.ok
    /\ Retrieved.value = <<>>
    /\ req.locals.adjustments.value = NoNewsAdjustment
    /\ req.response.status = 200

\* C14: the fused features are the base features with each delta added to
\* the feature of the same name; a key only the adjustment has is not added,
\* and the forecast is made from the fused features.
C14_FusionAddsDeltas ==
    (/\ AdjusterCalled
     /\ req.locals.adjustments.ok
     /\ Get(req.locals.adjustments.value, "adjustments", EmptyDict) # EmptyDict)
        => LET base == req.request.country_data
               deltas == req.locals.adjustments.value.adjustments
               fused == req.locals.adjusted_features
           IN  /\ DOMAIN fused = DOMAIN base
               /\ \A k \in DOMAIN base \cap DOMAIN deltas : fused[k] = base[k] + deltas[k]
               /\ \A k \in DOMAIN base \ DOMAIN deltas : fused[k] = base[k]
               /\ req.locals.forecast = Forecast(req.seen, fused, req.request.years)

\* deltas with a key the base features lack, and a birth-rate delta applied
C14_Witness ==
    /\ AdjusterCalled
    /\ req.locals.adjustments.ok
    /\ "adjustments" \in DOMAIN req.locals.adjustments.value
    /\ "unknownKey" \in DOMAIN req.locals.adjustments.value.adjustments
    /\ "unknownKey" \notin DOMAIN req.request.country_data
    /\ req.locals.adjusted_features["birthRate"] = req.request.country_data["birthRate"] + 500
    /\ req.locals.adjusted_features["urbanization"] = req.request.country_data["urbanization"]
    /\ req.response.status = 200

\* C15: a prediction made with contextual adjustment carries the adjustment
\* object the adjuster produced, also when its deltas are empty.
C15_AdjustmentReported ==
    (AdjusterCalled /\ req.locals.adjustments.ok /\ req.response.status = 200)
        => req.response.rag_adjustments = Some(req.locals.adjustments.value)

\* C16: load_model on a fresh wrapper, of the file a save_model call wrote,
\* restores the regressor, the feature importance, the training metrics, the
\* feature names and the trained flag of the saving wrapper, and the fresh
\* wrapper predicts as the saving wrapper does.
C16_SaveLoadRoundTrip ==
    (/\ call.op = "load_model"
     /\ call.fresh
     /\ call.file.exists
     /\ call.file.saver # Unallocated)
        => /\ call.result.ok
           /\ LET loaded == call.result.value
                   saver == call.file.saver
               IN  /\ loaded.model = saver.model
                   /\ loaded.feature_importance = saver.feature_importance
                   /\ loaded.training_metrics = saver.training_metrics
                   /\ loaded.feature_names = saver.feature_names
                   /\ loaded.is_trained = saver.is_trained
                   /\ \A features \in DirectInputs :
                          Predict(loaded, features) = Predict(saver, features)

\* a fresh wrapper loaded the file of a trained wrapper, and predicts
C16_Witness ==
    /\ call.op = "load_model"
    /\ call.fresh
    /\ call.file.exists
    /\ call.file.saver # Unallocated
    /\ call.file.saver.is_trained
    /\ call.file.saver.feature_importance # EmptyDict
    /\ call.result.ok
    /\ Predict(call.result.value, VN).ok

\* the feature ordering a model file records (none: the empty sequence)
FileOrdering(file) ==
    IF file.format = "dict" THEN Get(file.data, "feature_names", <<>>) ELSE <<>>

\* C17: load_model raises for a file whose recorded feature ordering is not
\* the wrapper's (or that records none), and never leaves the wrapper trained
\* with a regressor fitted under an ordering other than the one predict
\* builds its vector in.
C17_OrderingMismatchSurfaced ==
    (/\ call.op = "load_model"
     /\ call.file.exists
     /\ FileOrdering(call.file) # call.before.feature_names)
        => /\ ~call.result.ok
           /\ ~(/\ call.result.value.is_trained
                 /\ call.result.value.model.columns # VectorColumns)

\* the train call in progress (or just ended) has run prepare_training_data
Prepared ==
    /\ job.kind # "none"
    /\ job.pc # "prepare"
    /\ job.err \notin {"HTTPException400", "NoData"}

\* the growth targets of the consecutive pairs of a series whose earlier
\* population is not 0
RECURSIVE PairTargets(_, _)
PairTargets(historical_data, i) ==
    IF i > Len(historical_data) - 1 THEN <<>>
    ELSE LET current == historical_data[i]
             next_year == historical_data[i + 1]
             growth == ((next_year.pop - current.pop) * 100000) \div current.pop
         IN  (IF current.pop = 0 THEN <<>>
              ELSE <<IF growth > MaxFinite THEN INF ELSE growth>>)
             \o PairTargets(historical_data, i + 1)

RECURSIVE ExpectedTargets(_, _)
ExpectedTargets(countries_data, c) ==
    IF c > Len(countries_data) THEN <<>>
    ELSE PairTargets(Get(countries_data[c], "historicalData", <<>>), 1)
         \o ExpectedTargets(countries_data, c + 1)

\* C18: prepare_training_data gives one real sample per consecutive pair of
\* years whose earlier population is not 0, with target
\* (pop[t+1] - pop[t]) / pop[t] * 100, and skips the pairs with pop[t] = 0
\* without a division-by-zero error.
C18_ZeroPopulationPairsSkipped ==
    Prepared
        => /\ job.err # "ZeroDivisionError"
           /\ ExpectedTargets(job.countries, 1) # <<>>
                => job.y = ExpectedTargets(job.countries, 1)

\* the keys the claim names: their defaults are 15.0, 7.0 and 3000
DefaultedKeys == {"birthRate", "deathRate", "gdpPerCapita"}

\* C19: on the predict path and on the forecast path, a bundle that lacks
\* birthRate, deathRate or gdpPerCapita gets the feature vector of the fixed
\* defaults, and the call does not fail for the missing field.
C19_FeatureTransformTotal ==
    (/\ call.op \in {"predict", "forecast"}
     /\ call.self.is_trained
     /\ \A k \in {DriftKeys[i] : i \in 1..Len(DriftKeys)} \ DefaultedKeys : k \in DOMAIN call.data)
        => /\ call.result.err # "KeyError"
           /\ (call.op = "forecast" /\ call.years >= 1)
                => FeatureVector(SnapshotFeatures(call.data)) = FeatureVector(call.data)

\* the raw indicator bundle of a training sample, under the names predict
\* reads: the year's birth, death and gdp, and the country's life expectancy
\* and urbanization, each present only when the source has it
RawBundle(country, current) ==
    LET from == [birthRate |-> "birth", deathRate |-> "death", gdpPerCapita |-> "gdp"]
        yearly == { k \in DOMAIN from : from[k] \in DOMAIN current }
        meta == { k \in {"lifeExpectancy", "urbanization"} : k \in DOMAIN country }
    IN  [k \in yearly \cup meta |-> IF k \in yearly THEN current[from[k]] ELSE country[k]]

\* C20: the feature vector of a training sample and the feature vector
\* predict builds from the same raw values are equal, feature by feature and
\* in the same order.
C20_TrainPredictFeaturesEqual ==
    (Prepared /\ job.before.feature_names = FEATURE_NAMES)
        => /\ job.before.feature_names = VectorColumns
           /\ \A n \in 1..Len(job.X), c \in 1..Len(job.countries) :
                LET country == job.countries[c]
                    historical_data == Get(country, "historicalData", <<>>)
                IN  \A i \in 1..Len(historical_data) :
                      (/\ Get(country, "name", "") = job.X[n].country
                       /\ historical_data[i].year = job.X[n].year)
                        => \A f \in DOMAIN FeatureVector(RawBundle(country, historical_data[i])) :
                              FeatureVector(RawBundle(country, historical_data[i]))[f]
                                  = job.X[n][f]

\* C21: when contextual adjustment is not requested, the adjuster is not
\* called, the forecast is made from exactly the request's country data, and
\* the response reports no adjustment.
C21_NoAdjustmentWithoutRag ==
    (/\ req.pc = "answered"
     /\ req.seen.is_trained
     /\ ~req.request.use_rag)
        => /\ req.locals.adjuster_calls = 0
           /\ req.locals.adjusted_features = req.request.country_data
           /\ req.locals.forecast =
                  Forecast(req.seen, req.request.country_data, req.request.years)
           /\ req.response.rag_adjustments = Nothing

\* a request without adjustment answered while documents and the text
\* generation were available
C21_Witness ==
    /\ req.pc = "answered"
    /\ req.seen.is_trained
    /\ ~req.request.use_rag
    /\ req.request.env = ActiveEnv
    /\ req.response.status = 200
    /\ req.response.rag_adjustments = Nothing

\* x multiplied n times by num/den
RECURSIVE Scaled(_, _, _, _)
Scaled(x, num, den, n) ==
    IF n = 0 THEN x ELSE MulFloat(Scaled(x, num, den, n - 1), num, den)

\* the indicators after n applications of the drift policy
Aged(data, n) ==
    [k \in DOMAIN data |->
        CASE k = "birthRate" -> Scaled(data[k], 995, 1000, n)
          [] k = "deathRate" -> Scaled(data[k], 101, 100, n)
          [] k = "gdpPerCapita" -> Scaled(data[k], 103, 100, n)
          [] k = "medianAge" -> data[k] + 500 * n
          [] k = "lifeExpectancy" -> data[k] + 100 * n
          [] OTHER -> data[k]]

\* C22: in a forecast the features used for step t's prediction are those of
\* the initial state with the drift applied exactly t-1 times (birthRate x
\* 0.995, deathRate x 1.01, gdpPerCapita x 1.03, medianAge + 0.5,
\* lifeExpectancy + 0.1); every other indicator is the same at every step.
C22_DriftPerStep ==
    (call.op = "forecast" /\ call.result.ok)
        => /\ Len(call.fed) = call.years
           /\ \A t \in 1..call.years :
                 call.fed[t] = SnapshotFeatures(Aged(call.data, t - 1))

\* a forecast of three steps whose third step saw twice-aged indicators
C22_Witness ==
    /\ call.op = "forecast"
    /\ call.result.ok
    /\ call.years >= 3
    /\ call.fed[3]["medianAge"] = call.data["medianAge"] + 1000
    /\ call.fed[3]["birthRate"] < call.fed[2]["birthRate"]
    /\ call.fed[3]["urbanization"] = call.data["urbanization"]

\* C23: populations compound: each point's population is the previous
\* point's population (the initial population for point 1) times
\* (1 + g/100), g being the growth rate reported in that point.
C23_PopulationCompounds ==
    (call.op = "forecast" /\ call.result.ok)
        => \A t \in 1..Len(call.result.value) :
              LET previous == IF t = 1 THEN Get(call.data, "population", 0)
                              ELSE call.result.value[t - 1].population
                  g == call.result.value[t].growthRate
              IN  call.result.value[t].population = previous + (previous * g) \div 100000

\* a trajectory of three points, each population differing from the one before
C23_Witness ==
    /\ call.op = "forecast"
    /\ call.result.ok
    /\ Len(call.result.value) >= 3
    /\ call.result.value[1].population # Get(call.data, "population", 0)
    /\ call.result.value[2].population # call.result.value[1].population
    /\ call.result.value[3].population # call.result.value[2].population

\* the text between the first "{" and the last "}" of a text, when the last
\* "}" comes after the first "{"
Opens(text) == { i \in 1..Len(text) : text[i] = "{" }
Closes(text) == { i \in 1..Len(text) : text[i] = "}" }
HasSpan(text) ==
    /\ Opens(text) # {}
    /\ Closes(text) # {}
    /\ \E c \in Closes(text) : \A o \in Opens(text) \cup Closes(text) : c >= o
    /\ \E c \in Closes(text), o \in Opens(text) : o < c /\ \A x \in Opens(text) : o <= x
Span(text) ==
    SubSeq(text, CHOOSE o \in Opens(text) : \A x \in Opens(text) : o <= x,
                 CHOOSE c \in Closes(text) : \A x \in Closes(text) : c >= x)

\* the generation was called for retrieved documents and gave nothing that
\* decodes: it raised, or its text has no usable span, or the span is not JSON
NothingDecodes ==
    /\ AdjusterCalled
    /\ Retrieved.ok
    /\ Retrieved.value # <<>>
    /\ req.request.env.gen_configured
    /\ \/ req.request.env.gen_raises
       \/ ~HasSpan(req.request.env.text)
       \/ ~JsonLoads(Span(req.request.env.text)).ok

\* C24: when the generated text holds no usable span or the span does not
\* decode, or the generation call itself failed, the adjuster returns the
\* rule-based analysis of the retrieved documents and does not raise.
C24_ParseFailureFallsBackToRules ==
    NothingDecodes
        => /\ req.locals.adjustments.ok
           /\ req.locals.adjustments.value =
                  ManualAnalysis(Retrieved.value, req.request.country_data)

\* a text whose last "}" comes before its first "{", answered by the rules
C24_Witness ==
    /\ NothingDecodes
    /\ ~req.request.env.gen_raises
    /\ Opens(req.request.env.text) # {}
    /\ Closes(req.request.env.text) # {}
    /\ ~HasSpan(req.request.env.text)
    /\ req.locals.adjustments.ok
    /\ req.locals.adjustments.value.adjustments # EmptyDict
    /\ req.response.status = 200

\* the same word up to the case of its letters
SameIgnoringCase(a, b) ==
    \/ a = b
    \/ <<a, b>> \in {<<"KHUYEN SINH", "khuyen sinh">>, <<"Dai Dich", "dai dich">>}

\* the retrieved documents mention a keyword of the group
Mentions(news_articles, keywords) ==
    \E i \in 1..Len(news_articles) :
        \E j \in 1..Len(news_articles[i].content), k \in keywords :
            SameIgnoringCase(news_articles[i].content[j], k)

\* C25: the rule-based analysis returns exactly the union of the deltas of
\* the keyword groups found, case-insensitively, in the documents:
\* pro-natal gives birthRate +0.3 and fertilityRate +0.2, disaster gives
\* deathRate +0.5, growth gives gdpPerCapita + 5% of the current value;
\* the confidence is 0.6 when a group matched and 0.3 otherwise.
C25_RuleBasedAnalysis ==
    NothingDecodes
        => LET news == Retrieved.value
               result == req.locals.adjustments.value
               birth == Mentions(news, {"khuyen sinh", "tang sinh", "tro cap sinh con"})
               disaster == Mentions(news, {"dai dich", "dich benh", "thien tai"})
               growth == Mentions(news, {"tang truong kinh te", "phat trien", "dau tu"})
               deltas == result.adjustments
           IN  /\ req.locals.adjustments.ok
               /\ DOMAIN deltas =
                      (IF birth THEN {"birthRate", "fertilityRate"} ELSE {})
                      \cup (IF disaster THEN {"deathRate"} ELSE {})
                      \cup (IF growth THEN {"gdpPerCapita"} ELSE {})
               /\ birth => deltas["birthRate"] = 300 /\ deltas["fertilityRate"] = 200
               /\ disaster => deltas["deathRate"] = 500
               /\ growth => deltas["gdpPerCapita"] =
                      (Get(req.request.country_data, "gdpPerCapita", 0) * 5) \div 100
               /\ result.confidence = IF birth \/ disaster \/ growth THEN 600 ELSE 300
               /\ result.reasoning = <<birth, disaster, growth>>

\* two groups matched in two documents, one of them in upper case
C25_Witness ==
    /\ NothingDecodes
    /\ Len(Retrieved.value) = 2
    /\ DOMAIN req.locals.adjustments.value.adjustments
          = {"birthRate", "fertilityRate", "deathRate"}
    /\ req.locals.adjustments.value.confidence = 600

\* C26: every document retrieved for a prediction carries the country code
\* of the request, and at most 3 documents are retrieved, also for a request
\* whose country data has no country_code.
C26_RetrievedForCountry ==
    (AdjusterCalled /\ Retrieved.ok)
        => /\ Len(Retrieved.value) <= 3
           /\ \A i \in 1..Len(Retrieved.value) :
                 /\ "country_code" \in DOMAIN req.request.country_data
                 /\ Retrieved.value[i].metadata.country_code
                        = req.request.country_data["country_code"]

\* C28: when a /train request has succeeded, the prediction router's active
\* model is the wrapper just trained: it is trained, its regressor is the
\* one this run constructed and fitted, and /model/status reports this
\* run's metrics.
C28_TrainedModelBecomesActive ==
    (job.kind = "endpoint" /\ job.pc = "done" /\ job.ok)
        => /\ predRef = job.w
           /\ PredictGetModel = wrappers[job.w]
           /\ PredictGetModel.is_trained
           /\ PredictGetModel.model = FitOn(Regressor(runs), FEATURE_NAMES)
           /\ ModelStatus.is_trained
           /\ ModelStatus.metrics = Some(TrainingMetrics(wrappers[job.w]))

\* a /train request succeeded after the prediction router had created its
\* own instance
C28_Witness ==
    /\ job.kind = "endpoint"
    /\ job.pc = "done"
    /\ job.ok
    /\ job.status = 200
    /\ wrappers[W_PRED] # Unallocated
    /\ predRef = W_TRAIN

\* C29: a /train request with fewer than 2 countries is answered with
\* status 400, not 500.
C29_FewCountriesIsClientError ==
    (job.kind = "endpoint" /\ job.pc = "done" /\ Len(job.countries) < 2)
        => job.status = 400

C27_CountryYearUnique ==
    /\ \A r, q \in store :
          (r.country_code = q.country_code /\ r.year = q.year) => r = q
    /\ \A s \in SaverIds :
          (tx[s].pc = "done" /\ tx[s].existing # 0)
            => /\ tx[s].outcome = "updated"
               /\ \E r \in store : /\ r.id = tx[s].existing
                                    /\ r.country_code = tx[s].country_code
                                    /\ r.year = tx[s].year

\* two saves of one pair ran together: both found no row, one added it and
\* the other's INSERT was rejected
C27_Witness ==
    \E s \in SaverIds :
        /\ tx[s].pc = "done"
        /\ tx[s].existing = 0
        /\ tx[s].outcome = "IntegrityError"
        /\ \E r \in store : r.country_code = tx[s].country_code /\ r.year = tx[s].year

====
